---- MODULE Spec2Model ----
(***************************************************************************)
(* Model of pittie_bot (src/main.rs): the bootstrap (Pittie::init), the    *)
(* dispatch loop (Pittie::run), the handler tasks it spawns                *)
(* (EventHandler::handle_event / process_cmd / cmd_pittie) and the image   *)
(* store they read (EventHandler::get_random_image).                       *)
(*                                                                         *)
(* Text is a sequence of one-character strings, so that starts_with,       *)
(* ends_with, slicing and split are computed and not assumed.              *)
(***************************************************************************)
EXTENDS Integers, Sequences, FiniteSets, TLC

VARIABLES
    mainPc,     \* where main() is: "init", "config", "cluster", "run", or an exit
    fsDir,      \* the file system at IMAGES_DIR
    cfgFile,    \* the file system at CONFIG_PATH
    CONFIG,     \* the lazy_static CONFIG
    net,        \* whether a network connection was attempted (Cluster::new)
    images,     \* EventHandler.images (the Vec behind the RwLock)
    readers,    \* the tasks that hold a read guard of the RwLock of images
    events,     \* Pittie.events: the events delivered by the gateway, not yet pulled
    tasks,      \* the tasks spawned by Pittie::run, in spawn order
    http        \* the create-message requests executed, in order

vars == <<mainPc, fsDir, cfgFile, CONFIG, net, images, readers, events, tasks, http>>

\* Number of events the model lets the gateway deliver on the stream.
MaxEvents == 2

----------------------------------------------------------------------------
\* Text helpers (std::str)

\* str::starts_with
StartsWith(s, p) == Len(p) <= Len(s) /\ SubSeq(s, 1, Len(p)) = p

\* str::ends_with
EndsWith(s, p) == Len(p) <= Len(s) /\ SubSeq(s, Len(s) - Len(p) + 1, Len(s)) = p

\* &s[n..] for n <= s.len() (a larger n panics: see process_cmd)
SliceFrom(s, n) == SubSeq(s, n + 1, Len(s))

\* str::split_whitespace-like splitting: empty pieces are dropped
RECURSIVE SplitSkipEmpty(_, _)
SplitSkipEmpty(s, sep) ==
    LET at == {i \in 1..Len(s) : s[i] = sep}
    IN  IF s = <<>> THEN <<>>
        ELSE IF at = {} THEN <<s>>
        ELSE LET i == CHOOSE k \in at : \A j \in at : k <= j
             IN  (IF i = 1 THEN <<>> ELSE <<SubSeq(s, 1, i - 1)>>)
                 \o SplitSkipEmpty(SubSeq(s, i + 1, Len(s)), sep)

\* str::split(sep).collect() for a one-character separator: the pieces between
\* the separators, empty pieces included; the empty text yields one empty piece.
RECURSIVE Split(_, _)
Split(s, sep) ==
    LET at == {i \in 1..Len(s) : s[i] = sep}
    IN  IF at = {} THEN <<s>>
        ELSE LET i == CHOOSE k \in at : \A j \in at : k <= j
             IN  <<SubSeq(s, 1, i - 1)>> \o Split(SubSeq(s, i + 1, Len(s)), sep)

Range(s) == {s[i] : i \in DOMAIN s}

\* Literals of the source
PITTIE == <<"p", "i", "t", "t", "i", "e">>
PNG == <<".", "p", "n", "g">>
JPG == <<".", "j", "p", "g">>
JPEG == <<".", "j", "p", "e", "g">>
\* "No images provided ):"
NoImagesText ==
    <<"N", "o", " ", "i", "m", "a", "g", "e", "s", " ",
      "p", "r", "o", "v", "i", "d", "e", "d", " ", ")", ":">>
\* the prefix create_default_config writes: "%"
DefaultPrefix == <<"%">>

----------------------------------------------------------------------------
\* The image store

\* supported_type
supported_type(filename) ==
    EndsWith(filename, PNG) \/ EndsWith(filename, JPG) \/ EndsWith(filename, JPEG)

\* The loop of get_images over the directory's entries: a supported file is
\* read and pushed; the first supported file that cannot be read ends the loop
\* with an error (read_file(..)?).
RECURSIVE LoadEntries(_)
LoadEntries(files) ==
    IF files = <<>> THEN [ok |-> TRUE, imagev |-> <<>>]
    ELSE LET f == Head(files)
             rest == LoadEntries(Tail(files))
         IN  IF ~supported_type(f.name) THEN rest
             ELSE IF ~f.readable THEN [ok |-> FALSE, imagev |-> <<>>]
             ELSE IF ~rest.ok THEN rest
             ELSE [ok |-> TRUE,
                   imagev |-> <<[name |-> f.name, file |-> f.contents]>> \o rest.imagev]

\* get_images, were every file system error to yield an empty store
get_images_ignores_errors(dir, created) ==
    IF dir.kind = "dir" /\ LoadEntries(dir.files).ok
    THEN [ok |-> TRUE, imagev |-> LoadEntries(dir.files).imagev, dir |-> dir]
    ELSE [ok |-> TRUE, imagev |-> <<>>, dir |-> dir]

\* Pittie::get_images on the directory dir; created tells whether create_dir
\* succeeds when the directory is missing. The result carries the directory
\* as the call leaves it.
get_images(dir, created) ==
    CASE dir.kind = "dir" ->
            LET r == LoadEntries(dir.files)
            IN  [ok |-> r.ok, imagev |-> r.imagev, dir |-> dir]
      [] dir.kind = "missing" ->
            IF created
            THEN [ok |-> TRUE, imagev |-> <<>>, dir |-> [kind |-> "dir", files |-> <<>>]]
            ELSE [ok |-> FALSE, imagev |-> <<>>, dir |-> dir]
      [] OTHER -> [ok |-> FALSE, imagev |-> <<>>, dir |-> dir]

\* Option<Image>, and the panic of an index out of bounds
None == [tag |-> "None", name |-> <<>>, file |-> <<>>]
Some(img) == [tag |-> "Some", name |-> img.name, file |-> img.file]
IndexPanic == [tag |-> "Panic", name |-> <<>>, file |-> <<>>]

\* fastrand::usize(..=n)
fastrand_usize_inclusive(n) == 1..(n + 1)

\* fastrand::usize(..n): the indices it can return (1-based here)
fastrand_usize(n) == 1..n

\* EventHandler::get_random_image: the results it can return on store imgs
get_random_image(imgs) ==
    IF imgs = <<>> THEN {None}
    ELSE {IF i \in DOMAIN imgs THEN Some(imgs[i]) ELSE IndexPanic :
            i \in fastrand_usize(Len(imgs))}

\* EventHandler::get_rand_attachment on what get_random_image returned
get_rand_attachment(image) ==
    IF image.tag = "Some"
    THEN [tag |-> "Some", filename |-> image.name, file |-> image.file,
          description |-> "None", id |-> 0]
    ELSE [tag |-> image.tag, filename |-> <<>>, file |-> <<>>,
          description |-> "None", id |-> 0]

----------------------------------------------------------------------------
\* The configuration

\* Config::create_default_config: the file it leaves at CONFIG_PATH
create_default_config == [kind |-> "valid", prefix |-> DefaultPrefix]

\* CONFIG before its first use
Uninitialised == [init |-> FALSE, prefix |-> <<>>]

\* Config::init_config on the file at CONFIG_PATH: the Config it returns, the
\* file it leaves, and how it ends: "ok", "exit_1" (std::process::exit(1) after
\* writing the default), or "panic" (the file cannot be opened).
init_config(file) ==
    CASE file.kind = "valid" ->
            [CONFIG |-> [init |-> TRUE, prefix |-> file.prefix], file |-> file,
             outcome |-> "ok"]
      [] file.kind \in {"missing", "invalid"} ->
            [CONFIG |-> Uninitialised, file |-> create_default_config,
             outcome |-> "exit_1"]
      [] OTHER -> [CONFIG |-> Uninitialised, file |-> file, outcome |-> "panic"]

\* A use of the lazy_static CONFIG: the first one runs init_config
Deref(cfg, file) ==
    IF cfg.init THEN [CONFIG |-> cfg, file |-> file, outcome |-> "ok"]
    ELSE init_config(file)

----------------------------------------------------------------------------
\* The handlers. Each is the effect of running it up to its first suspension
\* point: the functions entered (calls), the lines written to standard error
\* and standard output, the create-message requests whose exec() was started,
\* and how it stands: "Ok", "Err", "Panic", or "Await" (suspended in
\* exec().await).

Effect(calls, stderr, stdout, requests, result) ==
    [calls |-> calls, stderr |-> stderr, stdout |-> stdout,
     requests |-> requests, result |-> result]

\* The effect e of a callee, seen from the function named fn that called it
Within(fn, e) == [e EXCEPT !.calls = <<fn>> \o e.calls]

AsciiAlphanumeric ==
    {"a", "b", "c", "d", "e", "f", "g", "h", "i", "j", "k", "l", "m",
     "n", "o", "p", "q", "r", "s", "t", "u", "v", "w", "x", "y", "z",
     "A", "B", "C", "D", "E", "F", "G", "H", "I", "J", "K", "L", "M",
     "N", "O", "P", "Q", "R", "S", "T", "U", "V", "W", "X", "Y", "Z",
     "0", "1", "2", "3", "4", "5", "6", "7", "8", "9"}

\* CreateMessage::attachments(..)?: the builder returns an error, and
\* cmd_pittie returns it before exec(), unless every file name is made of ASCII
\* letters and digits, dots, dashes and underscores.
attachments_ok(atts) ==
    \A k \in DOMAIN atts :
        \A j \in DOMAIN atts[k].filename :
            atts[k].filename[j] \in AsciiAlphanumeric \cup {".", "-", "_"}

\* CreateMessage::content(..)?: the builder returns an error for a text of more
\* than 2000 characters.
content_ok(text) == Len(text) <= 2000

\* A create-message request of cmd_pittie for the channel of msg
Request(msg, atts, has, text) ==
    [channel_id |-> msg.channel_id, attachments |-> atts,
     content |-> [has |-> has, text |-> text]]

\* no_image_reply, were a missing image returned as an error (ok_or(..)?)
no_image_reply_is_error(msg) == Effect(<<"cmd_pittie">>, <<>>, <<>>, <<>>, "Err")

\* cmd_pittie, the else branch: the reply when get_rand_attachment is None
no_image_reply(msg) ==
    IF content_ok(NoImagesText)
    THEN Effect(<<"cmd_pittie">>, <<>>, <<>>,
                <<Request(msg, <<>>, TRUE, NoImagesText)>>, "Await")
    ELSE Effect(<<"cmd_pittie">>, <<>>, <<>>, <<>>, "Err")

\* EventHandler::cmd_pittie, image being what get_random_image returns
cmd_pittie(msg, image) ==
    LET attachment == get_rand_attachment(image)
    IN  CASE attachment.tag = "Panic" ->
                Effect(<<"cmd_pittie">>, <<>>, <<>>, <<>>, "Panic")
          [] attachment.tag = "Some" ->
                IF attachments_ok(<<attachment>>)
                THEN Effect(<<"cmd_pittie">>, <<>>, <<>>,
                            <<Request(msg, <<attachment>>, FALSE, <<>>)>>, "Await")
                ELSE Effect(<<"cmd_pittie">>, <<>>, <<>>, <<>>, "Err")
          [] OTHER -> no_image_reply(msg)

\* cmd_args, were the text after the prefix not split
cmd_args_unsplit(content, prefix) == <<SliceFrom(content, Len(prefix))>>

\* process_cmd, `args`: the text after the prefix, split at the spaces
cmd_args(content, prefix) == Split(SliceFrom(content, Len(prefix)), " ")

\* unknown_command, were the line to name the prefix only
unknown_command_without_token(prefix, token) ==
    Effect(<<>>, <<[line |-> "Unknown command", text |-> prefix]>>, <<>>, <<>>, "Ok")

\* process_cmd, the `_` arm: eprintln!("Unknown command: {}{}", prefix, args[0])
unknown_command(prefix, token) ==
    Effect(<<>>, <<[line |-> "Unknown command", text |-> prefix \o token]>>,
           <<>>, <<>>, "Ok")

\* match_command, were there an "addpittie" arm that does nothing
match_command_with_addpittie(msg, prefix, args, image) ==
    CASE args[1] = PITTIE -> cmd_pittie(msg, image)
      [] args[1] = <<"a", "d", "d">> \o PITTIE -> Effect(<<>>, <<>>, <<>>, <<>>, "Ok")
      [] OTHER -> unknown_command(prefix, args[1])

\* process_cmd, `match args[0]`: "pittie" is the only arm beside `_` (the
\* "addpittie" arm is commented out)
match_command(msg, prefix, args, image) ==
    IF args[1] = PITTIE
    THEN cmd_pittie(msg, image)
    ELSE unknown_command(prefix, args[1])

\* EventHandler::process_cmd. The slice panics when the prefix is longer than
\* the text, args[0] when args is empty.
process_cmd(msg, prefix, image) ==
    IF Len(prefix) > Len(msg.content)
    THEN Effect(<<"process_cmd">>, <<>>, <<>>, <<>>, "Panic")
    ELSE LET args == cmd_args(msg.content, prefix)
         IN  IF args = <<>>
             THEN Effect(<<"process_cmd">>, <<>>, <<>>, <<>>, "Panic")
             ELSE Within("process_cmd", match_command(msg, prefix, args, image))

\* is_command, without the starts_with test
is_command_any_text(event, prefix) ==
    event.kind = "MessageCreate" /\ ~event.author.bot

\* is_command, without the author.bot test
is_command_any_author(event, prefix) ==
    event.kind = "MessageCreate" /\ StartsWith(event.content, prefix)

\* handle_event, the pattern and guard of its first arm
is_command(event, prefix) ==
    /\ event.kind = "MessageCreate"
    /\ ~event.author.bot
    /\ StartsWith(event.content, prefix)

\* EventHandler::handle_event
handle_event(event, prefix, image) ==
    CASE is_command(event, prefix) ->
            Within("handle_event", process_cmd(event, prefix, image))
      [] event.kind = "Ready" ->
            Effect(<<"handle_event">>, <<>>,
                   <<[line |-> "Logged in as", text |-> <<>>]>>, <<>>, "Ok")
      [] OTHER -> Effect(<<"handle_event">>, <<>>, <<>>, <<>>, "Ok")

\* The closure Pittie::run spawns: an error of handle_event is written to
\* standard error and goes no further.
LogIfErr(e) ==
    IF e.result = "Err"
    THEN [e EXCEPT !.stderr =
            Append(@, [line |-> "An error occurred while handling an event",
                       text |-> <<>>])]
    ELSE e

----------------------------------------------------------------------------
\* The inputs: directories, configuration files and gateway events

File(name, contents, readable) ==
    [name |-> name, contents |-> contents, readable |-> readable]

A_PNG == <<"a">> \o PNG
B_JPG == <<"b">> \o JPG
C_TXT == <<"c", ".", "t", "x", "t">>
X_PNG == <<"x">> \o PNG
MY_DOG_JPEG == <<"m", "y", " ", "d", "o", "g">> \o JPEG

ImageDirs ==
    {[kind |-> "missing", files |-> <<>>],
     [kind |-> "denied", files |-> <<>>],
     [kind |-> "dir", files |-> <<File(A_PNG, <<1>>, TRUE), File(B_JPG, <<2>>, TRUE),
                                  File(C_TXT, <<3>>, TRUE)>>],
     [kind |-> "dir", files |-> <<File(MY_DOG_JPEG, <<1>>, TRUE),
                                  File(X_PNG, <<2>>, TRUE)>>],
     [kind |-> "dir", files |-> <<File(A_PNG, <<1>>, FALSE)>>]}

Prefixes == {DefaultPrefix, <<"!", "!">>}

ConfigFiles ==
    {[kind |-> "valid", prefix |-> p] : p \in Prefixes}
    \cup {[kind |-> k, prefix |-> <<>>] : k \in {"missing", "invalid", "denied"}}

\* Authors: the bot's own account, another bot account, a human
BotItself == [id |-> "pittie_bot", bot |-> TRUE]
OtherBot == [id |-> "other_bot", bot |-> TRUE]
Human == [id |-> "human", bot |-> FALSE]
Authors == {BotItself, OtherBot, Human}

Channels == {"c1", "c2"}

Contents ==
    {DefaultPrefix \o PITTIE,
     DefaultPrefix \o PITTIE \o <<" ", "x">>,
     DefaultPrefix \o <<"a", "d", "d">> \o PITTIE,
     DefaultPrefix,
     DefaultPrefix \o <<"x">>,
     <<"!", "!">> \o PITTIE,
     <<"!", "!">>}

MessageCreate(author, channel, content) ==
    [kind |-> "MessageCreate", author |-> author, channel_id |-> channel,
     content |-> content]

NoAuthor == [id |-> "", bot |-> FALSE]

\* The events the gateway stream can yield
Events ==
    {[kind |-> k, author |-> NoAuthor, channel_id |-> "", content |-> <<>>] :
        k \in {"Ready"}}
    \cup {MessageCreate(Human, "c1", c) : c \in Contents}
    \cup {MessageCreate(a, "c1", DefaultPrefix \o PITTIE) : a \in Authors}
    \cup {MessageCreate(Human, ch, DefaultPrefix \o PITTIE) : ch \in Channels}

----------------------------------------------------------------------------
\* The state machine

\* get_random_image was not called
NotCalled == [tag |-> "NotCalled", name |-> <<>>, file |-> <<>>]

\* A task as tokio::spawn creates it: its event, where it is ("spawned",
\* "awaiting" the response of exec(), "done", "cancelled"), what it has done so
\* far, what get_random_image returned to it, the response of exec() and the
\* result of handle_event
NewTask(item) ==
    [seq |-> item.seq, event |-> item.event, pc |-> "spawned", calls |-> <<>>,
     stderr |-> <<>>, stdout |-> <<>>, picked |-> NotCalled, response |-> "None",
     result |-> "None"]

\* next_event, were the stream to yield its newest item
next_event_newest(stream) == stream[Len(stream)]

\* self.events.next(): the item the stream yields, its oldest
next_event(stream) == Head(stream)

\* run_can_pull, were the loop to await each handler before the next event
run_can_pull_after_join(ts) == \A t \in DOMAIN ts : ts[t].pc = "done"

\* Whether the loop of Pittie::run, with the tasks ts spawned, goes back to
\* events.next(): always, tokio::spawn returns at once and the JoinHandle is
\* dropped.
run_can_pull(ts) == TRUE

\* run_after_task, were the loop to await the handler and return its error
run_after_task_propagates(pc, e) == IF e.result = "Err" THEN "exit_failure" ELSE pc

\* What the loop of Pittie::run sees of a task that ran with effect e: nothing.
\* The closure consumes the error and the JoinHandle is dropped, so the loop
\* stays where it is.
run_after_task(pc, e) == pc

Init ==
    /\ mainPc = "init"
    /\ fsDir \in ImageDirs
    /\ cfgFile \in ConfigFiles
    /\ CONFIG = Uninitialised
    /\ net = FALSE
    /\ images = <<>>
    /\ readers = {}
    /\ events = <<>>
    /\ tasks = <<>>
    /\ http = <<>>

\* Pittie::init, `let images = Self::get_images()?;`
PittieInit_get_images ==
    /\ mainPc = "init"
    /\ \E created \in BOOLEAN :
        LET r == get_images(fsDir, created)
        IN  /\ fsDir' = r.dir
            /\ images' = r.imagev
            /\ mainPc' = IF r.ok THEN "config" ELSE "exit_failure"
    /\ UNCHANGED <<cfgFile, CONFIG, net, readers, events, tasks, http>>

\* cluster_token, were the token not read from CONFIG
cluster_token_elsewhere(cfg, file) == [CONFIG |-> cfg, file |-> file, outcome |-> "ok"]

\* Pittie::init, CONFIG.token.clone(): a use of CONFIG, the first one
cluster_token(cfg, file) == Deref(cfg, file)

\* Pittie::init, the first use of CONFIG (CONFIG.token, the argument of
\* Cluster::new)
PittieInit_config ==
    /\ mainPc = "config"
    /\ LET r == cluster_token(CONFIG, cfgFile)
       IN  /\ CONFIG' = r.CONFIG
           /\ cfgFile' = r.file
           /\ mainPc' = CASE r.outcome = "ok" -> "cluster"
                          [] r.outcome = "exit_1" -> "exit_1"
                          [] OTHER -> "panic"
    /\ UNCHANGED <<fsDir, net, images, readers, events, tasks, http>>

\* Pittie::init, Cluster::new(..).await? and cluster.up(): the connection is
\* made, or init returns the error and main exits with FAILURE
PittieInit_cluster ==
    /\ mainPc = "cluster"
    /\ net' = TRUE
    /\ \E ok \in BOOLEAN : mainPc' = IF ok THEN "run" ELSE "exit_failure"
    /\ UNCHANGED <<fsDir, cfgFile, CONFIG, images, readers, events, tasks, http>>

\* The gateway delivers an event: the shards of the cluster push it on the
\* stream, numbered in the order of arrival
gateway_event ==
    /\ mainPc = "run"
    /\ Len(tasks) + Len(events) < MaxEvents
    /\ \E event \in Events :
        events' = Append(events, [seq |-> Len(tasks) + Len(events) + 1, event |-> event])
    /\ UNCHANGED <<mainPc, fsDir, cfgFile, CONFIG, net, images, readers, tasks, http>>

\* Pittie::run, one turn of the loop: events.next() yields an event and the
\* handler task is spawned
run_next ==
    /\ mainPc = "run"
    /\ events # <<>>
    /\ run_can_pull(tasks)
    /\ LET item == next_event(events)
       IN  /\ tasks' = Append(tasks, NewTask(item))
           /\ events' = SelectSeq(events, LAMBDA x : x # item)
    /\ UNCHANGED <<mainPc, fsDir, cfgFile, CONFIG, net, images, readers, http>>

\* drop_runtime, were the tasks to outlive the runtime
drop_runtime_detached(ts) == ts

\* main returns: the runtime built by #[tokio::main] is dropped, and with it
\* every task that has not finished, where it stands
drop_runtime(ts) ==
    [t \in DOMAIN ts |->
        IF ts[t].pc \in {"spawned", "awaiting"}
        THEN [ts[t] EXCEPT !.pc = "cancelled"]
        ELSE ts[t]]

\* Pittie::run, events.next() yields None: run returns, main returns SUCCESS
\* and the runtime is dropped with the tasks that have not finished
run_end ==
    /\ mainPc = "run"
    /\ events = <<>>
    /\ mainPc' = "exit_success"
    /\ tasks' = drop_runtime(tasks)
    /\ readers' = {}
    /\ UNCHANGED <<fsDir, cfgFile, CONFIG, net, images, events, http>>

\* The requests task t has executed, in order
ReqsOf(t) ==
    LET mine == SelectSeq(http, LAMBDA r : r.task = t)
    IN  [k \in DOMAIN mine |-> mine[k].request]

\* after_exec, were a failed request sent again
after_exec_retry(request, ok) == IF ok THEN <<>> ELSE <<request>>

\* cmd_pittie after exec().await: the requests it goes on to make. `?` returns
\* the error and Ok(()) follows the response: none in either case.
after_exec(request, ok) == <<>>

\* What the first poll of task t does with the prefix of CONFIG, image being
\* what get_random_image returns if it is called
Poll(t, prefix, image) ==
    LogIfErr(handle_event(tasks[t].event, prefix, image))

\* handle_event reads CONFIG.prefix for a message of a non-bot author only
\* (`!msg.author.bot && ..` goes no further for a bot)
needs_config(event) == event.kind = "MessageCreate" /\ ~event.author.bot

\* images_after_pick, were get_random_image to take the entry out of the store
images_after_pick_takes(imgs, image) ==
    SelectSeq(imgs, LAMBDA x : ~(x.name = image.name /\ x.file = image.file))

\* The store after get_random_image returned image: as it was (the store is
\* only read, and the name and the bytes are cloned)
images_after_pick(imgs, image) == imgs

\* read_guard_after, were the guard to live as long as the returned image
read_guard_kept(t) == {t}

\* The read guards task t holds when get_random_image has returned: none,
\* `read` is a local of the block and is dropped at its end
read_guard_after(t) == {}

\* self.images.read(): whether a task can take a read guard while the tasks
\* rs hold one. Read guards are shared, and no task ever takes a write guard.
read_available(rs) == TRUE

\* Whether the runtime can poll the spawned task t: main is in the loop of run
\* (the runtime lives as long as main), and the read guard can be taken
can_poll(t) ==
    /\ mainPc = "run"
    /\ tasks[t].pc = "spawned"
    /\ read_available(readers)

\* Whether the runtime can resume task t with the response of exec()
can_complete(t) ==
    /\ mainPc = "run"
    /\ tasks[t].pc = "awaiting"

\* The first poll of a spawned task: handle_event runs to its end or to
\* exec().await
TaskPoll(t) ==
    /\ can_poll(t)
    /\ LET r == IF needs_config(tasks[t].event)
                THEN Deref(CONFIG, cfgFile)
                ELSE [CONFIG |-> CONFIG, file |-> cfgFile, outcome |-> "ok"]
       IN  /\ CONFIG' = r.CONFIG
           /\ cfgFile' = r.file
           /\ IF r.outcome = "ok"
              THEN \E image \in get_random_image(images) :
                    LET e == Poll(t, r.CONFIG.prefix, image)
                        called == "cmd_pittie" \in Range(e.calls)
                    IN  /\ tasks' = [tasks EXCEPT ![t] =
                                [@ EXCEPT !.pc = IF e.result = "Await"
                                                 THEN "awaiting" ELSE "done",
                                          !.calls = e.calls,
                                          !.stderr = e.stderr,
                                          !.stdout = e.stdout,
                                          !.picked = IF called THEN image ELSE NotCalled,
                                          !.result = IF e.result = "Await"
                                                     THEN "None" ELSE e.result]]
                        /\ http' = http \o [k \in DOMAIN e.requests |->
                                                [task |-> t, request |-> e.requests[k]]]
                        /\ images' = IF called THEN images_after_pick(images, image)
                                     ELSE images
                        /\ readers' = IF called /\ e.result = "Await"
                                      THEN readers \cup read_guard_after(t)
                                      ELSE readers
                        /\ mainPc' = run_after_task(mainPc, e)
              ELSE \* init_config ends the process (exit(1)) or panics in the task
                   /\ tasks' = IF r.outcome = "exit_1" THEN drop_runtime(tasks)
                               ELSE [tasks EXCEPT ![t] =
                                        [@ EXCEPT !.pc = "done", !.result = "Panic"]]
                   /\ mainPc' = IF r.outcome = "exit_1" THEN "exit_1" ELSE mainPc
                   /\ UNCHANGED <<http, images, readers>>
    /\ UNCHANGED <<fsDir, net, events>>

\* exec().await returns in task t: the response, or the error, which
\* cmd_pittie, process_cmd and handle_event return and the closure logs
SendComplete(t) ==
    /\ can_complete(t)
    /\ \E ok \in BOOLEAN :
        LET e == LogIfErr([calls |-> tasks[t].calls, stderr |-> tasks[t].stderr,
                           stdout |-> tasks[t].stdout, requests |-> <<>>,
                           result |-> IF ok THEN "Ok" ELSE "Err"])
        IN  /\ tasks' = [tasks EXCEPT ![t] =
                    [@ EXCEPT !.pc = "done", !.stderr = e.stderr,
                              !.response = IF ok THEN "Ok" ELSE "Err",
                              !.result = e.result]]
            /\ http' = http \o
                    LET more == after_exec(ReqsOf(t)[Len(ReqsOf(t))], ok)
                    IN  [k \in DOMAIN more |-> [task |-> t, request |-> more[k]]]
            /\ mainPc' = run_after_task(mainPc, e)
    /\ readers' = readers \ {t}
    /\ UNCHANGED <<fsDir, cfgFile, CONFIG, net, images, events>>

Next ==
    \/ PittieInit_get_images
    \/ PittieInit_config
    \/ PittieInit_cluster
    \/ gateway_event
    \/ run_next
    \/ run_end
    \/ \E t \in DOMAIN tasks : TaskPoll(t)
    \/ \E t \in DOMAIN tasks : SendComplete(t)

Spec == Init /\ [][Next]_vars

----------------------------------------------------------------------------
\* Properties

\* Task t has run handle_event (to its end or to exec().await)
Handled(t) == tasks[t].pc \in {"awaiting", "done"}

\* Task t's event is a message of a non-bot author whose text is the prefix
\* followed by rest
Says(t, rest) ==
    /\ tasks[t].event.kind = "MessageCreate"
    /\ ~tasks[t].event.author.bot
    /\ tasks[t].event.content = CONFIG.prefix \o rest

UnknownLine(token) == [line |-> "Unknown command", text |-> CONFIG.prefix \o token]

ErrorLine == [line |-> "An error occurred while handling an event", text |-> <<>>]

\* The number of times fn occurs in the calls of task t
Count(t, fn) == Cardinality({k \in DOMAIN tasks[t].calls : tasks[t].calls[k] = fn})

\* C1: with a non-empty store, handling prefix + "pittie" of a non-bot author
\* makes exactly one create-message request, to the channel of the message,
\* with exactly one attachment whose name and bytes are those of one entry of
\* the store, and with no text.
C1_OneAttachmentReply ==
    \A t \in DOMAIN tasks :
        (images # <<>> /\ Says(t, PITTIE) /\ Handled(t)) =>
            /\ Len(ReqsOf(t)) = 1
            /\ ReqsOf(t)[1].channel_id = tasks[t].event.channel_id
            /\ Len(ReqsOf(t)[1].attachments) = 1
            /\ \E i \in DOMAIN images :
                /\ images[i].name = ReqsOf(t)[1].attachments[1].filename
                /\ images[i].file = ReqsOf(t)[1].attachments[1].file
            /\ ~ReqsOf(t)[1].content.has

\* C2: with an empty store, handling prefix + "pittie" of a non-bot author makes
\* exactly one create-message request, to the channel of the message, with the
\* fallback text and no attachment; nothing is logged and nothing fails before
\* the request, and the handler returns Ok when the request succeeds.
C2_EmptyStoreFallback ==
    \A t \in DOMAIN tasks :
        (images = <<>> /\ Says(t, PITTIE) /\ Handled(t)) =>
            /\ ReqsOf(t) = <<Request(tasks[t].event, <<>>, TRUE, NoImagesText)>>
            /\ tasks[t].pc = "awaiting" => tasks[t].stderr = <<>>
            /\ tasks[t].response = "Ok" => (tasks[t].result = "Ok" /\ tasks[t].stderr = <<>>)
            /\ tasks[t].result = "Err" => tasks[t].response = "Err"

C2_Witness ==
    \E t \in DOMAIN tasks :
        /\ images = <<>> /\ Says(t, PITTIE)
        /\ tasks[t].pc = "done" /\ tasks[t].result = "Ok"
        /\ Len(ReqsOf(t)) = 1

C4_NoPrefixNoHandler ==
    \A t \in DOMAIN tasks :
        (tasks[t].event.kind = "MessageCreate"
            /\ CONFIG.init /\ ~StartsWith(tasks[t].event.content, CONFIG.prefix)) =>
            /\ Count(t, "process_cmd") = 0
            /\ Count(t, "cmd_pittie") = 0
            /\ ReqsOf(t) = <<>>
            /\ tasks[t].stderr = <<>>

C4_Witness ==
    \E t, u \in DOMAIN tasks :
        /\ tasks[t].event.kind = "MessageCreate" /\ ~tasks[t].event.author.bot
        /\ ~StartsWith(tasks[t].event.content, CONFIG.prefix)
        /\ tasks[t].pc = "done"
        /\ tasks[u].pc = "awaiting"

\* The first token of the text of task t's event after the prefix
Token(t) == Split(SliceFrom(tasks[t].event.content, Len(CONFIG.prefix)), " ")[1]

\* C5: for a text prefix + a first token the router has no arm for, no request
\* is made, the line "Unknown command" naming the prefix and that token is
\* written, and the handler returns Ok.
C5_UnknownCommand ==
    \A t \in DOMAIN tasks :
        (is_command(tasks[t].event, CONFIG.prefix) /\ Handled(t) /\ Token(t) # PITTIE) =>
            /\ ReqsOf(t) = <<>>
            /\ tasks[t].stderr = <<UnknownLine(Token(t))>>
            /\ tasks[t].result = "Ok"
            /\ tasks[t].pc = "done"

C5_Witness ==
    \E t \in DOMAIN tasks :
        /\ Says(t, <<"x">>) /\ Handled(t)
        /\ tasks[t].stderr = <<UnknownLine(<<"x">>)>>

\* C6: get_random_image returns None when the store is empty, and on a
\* non-empty store Some(name, bytes) of one entry of the store, which is a
\* supported file of the directory loaded at startup; the index never leaves
\* the collection.
C6_PickRandom ==
    \A t \in DOMAIN tasks :
        tasks[t].picked # NotCalled =>
            /\ images = <<>> => tasks[t].picked = None
            /\ images # <<>> =>
                /\ tasks[t].picked.tag = "Some"
                /\ \E i \in DOMAIN images :
                    /\ images[i].name = tasks[t].picked.name
                    /\ images[i].file = tasks[t].picked.file
                /\ \E k \in DOMAIN fsDir.files :
                    /\ fsDir.files[k].name = tasks[t].picked.name
                    /\ fsDir.files[k].contents = tasks[t].picked.file
                    /\ supported_type(fsDir.files[k].name)

C6_Witness ==
    \E t, u \in DOMAIN tasks :
        /\ Len(images) = 2
        /\ tasks[t].picked = Some(images[1])
        /\ tasks[u].picked = Some(images[2])

\* C7: an error of a handler task is logged in that task and the loop of
\* Pittie::run goes on: with failed handlers behind it the loop is still
\* running, or has ended only because the stream ended, and while it runs it
\* can pull the next event.
C7_ErrorsStayInTask ==
    (\E t \in DOMAIN tasks : tasks[t].result = "Err") =>
        /\ \A t \in DOMAIN tasks :
            tasks[t].result = "Err" =>
                (tasks[t].pc = "done" /\ ErrorLine \in Range(tasks[t].stderr))
        /\ mainPc \in {"run", "exit_success"}
        /\ (mainPc = "run" /\ events # <<>>) => ENABLED run_next

C7_Witness ==
    /\ \E t \in DOMAIN tasks :
        tasks[t].result = "Err" /\ tasks[t].response = "Err"
    /\ \E t \in DOMAIN tasks :
        tasks[t].result = "Err" /\ tasks[t].response = "None"
    /\ mainPc = "run"

\* C8 as stated: handling prefix + "addpittie" makes no request and writes no
\* unknown-command line.
C8_AddpittieSilent ==
    \A t \in DOMAIN tasks :
        (Says(t, <<"a", "d", "d">> \o PITTIE) /\ Handled(t)) =>
            /\ ReqsOf(t) = <<>>
            /\ \A k \in DOMAIN tasks[t].stderr : tasks[t].stderr[k].line # "Unknown command"

\* C8 amended: handling prefix + "addpittie" makes no request, is logged as an
\* unknown command naming "addpittie", and returns Ok, as for every name other
\* than "pittie".
C8_AddpittieUnknown ==
    \A t \in DOMAIN tasks :
        (Says(t, <<"a", "d", "d">> \o PITTIE) /\ Handled(t)) =>
            /\ ReqsOf(t) = <<>>
            /\ tasks[t].stderr = <<UnknownLine(<<"a", "d", "d">> \o PITTIE)>>
            /\ tasks[t].result = "Ok"

C8_Witness ==
    \E t \in DOMAIN tasks :
        /\ Says(t, <<"a", "d", "d">> \o PITTIE)
        /\ tasks[t].pc = "done"

\* C9: a message whose text is exactly the prefix never panics: the slice and
\* args[0] succeed, the empty token is logged as an unknown command, no
\* request is made and the handler returns Ok.
C9_PrefixOnly ==
    \A t \in DOMAIN tasks :
        (Says(t, <<>>) /\ Handled(t)) =>
            /\ tasks[t].result = "Ok"
            /\ tasks[t].calls = <<"handle_event", "process_cmd">>
            /\ tasks[t].stderr = <<UnknownLine(<<>>)>>
            /\ ReqsOf(t) = <<>>

C9_Witness ==
    \E t, u \in DOMAIN tasks :
        /\ Says(t, <<>>) /\ tasks[t].pc = "done" /\ tasks[t].result = "Ok"
        /\ Len(CONFIG.prefix) = 2
        /\ tasks[u].pc = "awaiting"

\* C10 as stated: an event is routed to process_cmd if and only if it is a
\* message-created event, its author is not the bot itself, and its text
\* starts with the prefix.
C10_RoutedUnlessBotItself ==
    \A t \in DOMAIN tasks :
        Handled(t) =>
            (Count(t, "process_cmd") > 0 <=>
                /\ tasks[t].event.kind = "MessageCreate"
                /\ tasks[t].event.author # BotItself
                /\ StartsWith(tasks[t].event.content, CONFIG.prefix))

\* C10 amended: an event is routed to process_cmd if and only if it is a
\* message-created event, its author is not a bot account (the bot itself or
\* any other bot), and its text starts with the prefix; every other event
\* reaches no command handler and makes no request.
C10_RoutedUnlessBot ==
    \A t \in DOMAIN tasks :
        Handled(t) =>
            /\ Count(t, "process_cmd") = 1 <=>
                /\ tasks[t].event.kind = "MessageCreate"
                /\ ~tasks[t].event.author.bot
                /\ StartsWith(tasks[t].event.content, CONFIG.prefix)
            /\ Count(t, "process_cmd") = 0 =>
                /\ tasks[t].calls = <<"handle_event">>
                /\ ReqsOf(t) = <<>>

C10_Witness ==
    \E t, u \in DOMAIN tasks :
        /\ tasks[t].event.author = OtherBot
        /\ StartsWith(tasks[t].event.content, CONFIG.prefix)
        /\ Handled(t) /\ Count(t, "process_cmd") = 0
        /\ tasks[u].event.author = Human /\ Count(u, "process_cmd") = 1

\* C11: a failed send of a pittie reply is swallowed without retry: the task
\* has made exactly the one request that failed, which is the reply itself,
\* it is done with the error logged, and no task ever makes a second request.
C11_NoRetry ==
    \A t \in DOMAIN tasks :
        /\ Len(ReqsOf(t)) <= 1
        /\ tasks[t].response = "Err" =>
            /\ Len(ReqsOf(t)) = 1
            /\ ReqsOf(t)[1].content.has => ReqsOf(t)[1].content.text = NoImagesText
            /\ tasks[t].pc = "done"
            /\ tasks[t].result = "Err"
            /\ tasks[t].stderr = <<ErrorLine>>

C11_Witness ==
    \E t \in DOMAIN tasks :
        /\ Says(t, PITTIE) /\ images # <<>>
        /\ tasks[t].response = "Err" /\ tasks[t].pc = "done"
        /\ mainPc = "run" /\ Len(tasks) = MaxEvents
        /\ \A u \in DOMAIN tasks : tasks[u].pc = "done"

\* C12: the loop of Pittie::run never waits for a handler task: with a task
\* not yet finished and an event on the stream, the loop can pull that event
\* and spawn its handler.
C12_FireAndForget ==
    (/\ mainPc = "run"
     /\ events # <<>>
     /\ \E t \in DOMAIN tasks : tasks[t].pc \in {"spawned", "awaiting"})
        => ENABLED run_next

\* The handler of message N awaits its send, message N+1 has been pulled and
\* its handler has started or completed
C12_Witness ==
    \E t, u \in DOMAIN tasks :
        /\ t < u
        /\ Says(t, PITTIE) /\ tasks[t].pc = "awaiting"
        /\ Says(u, PITTIE) /\ tasks[u].pc \in {"awaiting", "done"}

\* C13: the handler tasks are spawned in the order in which their events
\* arrived on the stream: the t-th task handles the t-th event, and the events
\* still on the stream follow in order.
C13_SpawnedInArrivalOrder ==
    /\ \A t \in DOMAIN tasks : tasks[t].seq = t
    /\ \A k \in DOMAIN events : events[k].seq = Len(tasks) + k

\* Two pittie commands A, B arrived in that order, in two channels; A's request
\* was started first, B's reply is complete and A's is still awaited
C13_Witness ==
    \E a, b \in DOMAIN tasks :
        /\ tasks[a].seq < tasks[b].seq
        /\ Says(a, PITTIE) /\ Says(b, PITTIE)
        /\ tasks[a].event.channel_id # tasks[b].event.channel_id
        /\ Len(http) = 2 /\ http[1].task = a /\ http[2].task = b
        /\ tasks[b].pc = "done" /\ tasks[b].response = "Ok"
        /\ tasks[a].pc = "awaiting"

\* C14 as stated: every spawned handler finishes, also when the stream is
\* exhausted and main returns: once main has returned, no handler is left
\* unfinished.
C14_AllHandlersComplete ==
    mainPc = "exit_success" => \A t \in DOMAIN tasks : tasks[t].pc = "done"

\* C14 amended: while the loop of Pittie::run is running no handler is
\* cancelled and every unfinished handler can take its next step; when the
\* stream is exhausted and main returns, every handler that has not finished
\* is dropped where it stands and never finishes.
C14_CompleteUnlessMainReturned ==
    \A t \in DOMAIN tasks :
        /\ tasks[t].pc = "cancelled" => (mainPc = "exit_success" /\ tasks[t].result = "None")
        /\ mainPc = "exit_success" => tasks[t].pc \in {"done", "cancelled"}
        /\ (mainPc = "run" /\ tasks[t].pc = "spawned") => can_poll(t)
        /\ (mainPc = "run" /\ tasks[t].pc = "awaiting") => can_complete(t)
        /\ mainPc = "exit_success" => (~can_poll(t) /\ ~can_complete(t))

\* main has returned while a handler was awaiting its send
C14_Witness ==
    \E t \in DOMAIN tasks :
        /\ mainPc = "exit_success"
        /\ Says(t, PITTIE)
        /\ tasks[t].pc = "cancelled"
        /\ Len(ReqsOf(t)) = 1
        /\ tasks[t].response = "None"

\* The directory cannot be loaded: it cannot be read, it is missing (after
\* Pittie::init: it could not be created), or a supported file of it cannot be
\* read
DirUnusable(d) == d.kind # "dir" \/ ~LoadEntries(d.files).ok

\* The directory as create_dir leaves it
CreatedDir == [kind |-> "dir", files |-> <<>>]

\* C15: a bootstrap error ends the process with a failure exit before any
\* network connection is attempted and before any event is dispatched: an
\* image directory that cannot be loaded ends main with FAILURE, a missing or
\* invalid configuration file ends the process in init_config (exit(1), or a
\* panic when it cannot be opened); a missing directory that is created is no
\* error: the store is empty and startup goes on.
C15_BootstrapErrors ==
    /\ (mainPc # "init" /\ DirUnusable(fsDir)) =>
        (mainPc = "exit_failure" /\ ~net /\ ~CONFIG.init /\ tasks = <<>> /\ events = <<>>)
    /\ cfgFile.kind # "valid" =>
        /\ mainPc \in {"init", "config", "exit_failure", "panic"}
        /\ mainPc = "panic" => cfgFile.kind = "denied"
        /\ ~net /\ tasks = <<>> /\ events = <<>>
    /\ mainPc \in {"exit_1", "panic"} =>
        (~net /\ ~CONFIG.init /\ tasks = <<>> /\ events = <<>> /\ http = <<>>)
    /\ fsDir = CreatedDir =>
        /\ images = <<>>
        /\ mainPc = "exit_failure" => net

\* The directory was missing and was created, startup went on to the first
\* use of CONFIG, whose file was missing or invalid: exit(1), no connection
C15_Witness ==
    /\ fsDir = CreatedDir
    /\ mainPc = "exit_1"
    /\ cfgFile = create_default_config
    /\ ~net

\* The entries get_images loads from the directory at IMAGES_DIR, in its order
Loaded == IF DirUnusable(fsDir) THEN <<>> ELSE LoadEntries(fsDir.files).imagev

\* C16: the store is read-only after boot: in every state after
\* Pittie::init's get_images, whatever events arrived and whatever the handler
\* tasks did, it holds exactly the entries loaded at startup, in the same
\* order, each the name and the bytes of a supported file.
C16_StoreReadOnly ==
    mainPc # "init" =>
        /\ images = Loaded
        /\ \A i \in DOMAIN images :
            /\ supported_type(images[i].name)
            /\ \E k \in DOMAIN fsDir.files :
                /\ fsDir.files[k].name = images[i].name
                /\ fsDir.files[k].contents = images[i].file

\* Both entries of a store of two were picked by finished handlers, and the
\* store still holds both
C16_Witness ==
    \E t, u \in DOMAIN tasks :
        /\ Len(images) = 2
        /\ tasks[t].pc = "done" /\ tasks[t].picked = Some(images[1])
        /\ tasks[u].pc = "done" /\ tasks[u].picked = Some(images[2])

\* C17: no handler holds the read guard of the store across a suspension
\* point: no task that awaits its send, and no task at all between two steps,
\* holds it; and a spawned handler can always run get_random_image, whatever
\* the other handlers are doing.
C17_NoGuardAcrossAwait ==
    /\ readers = {}
    /\ \A t \in DOMAIN tasks :
        /\ tasks[t].pc = "awaiting" => t \notin readers
        /\ (mainPc = "run" /\ tasks[t].pc = "spawned") => can_poll(t)

\* Two handlers have each picked an image and await their sends, a third event
\* aside
C17_Witness ==
    \E t, u \in DOMAIN tasks :
        /\ t # u
        /\ tasks[t].pc = "awaiting" /\ tasks[t].picked.tag = "Some"
        /\ tasks[u].pc = "awaiting" /\ tasks[u].picked.tag = "Some"
        /\ readers = {}

\* C18: CONFIG is initialised in Pittie::init, by its first use, before the
\* cluster is created, and never in a handler task: wherever a connection was
\* attempted, an event arrived or a task exists, CONFIG is initialised from the
\* valid file at CONFIG_PATH, so every handler reads that one prefix; and the
\* exit of init_config happens with no connection, no event and no task.
C18_ConfigInitialisedInInit ==
    /\ (mainPc \in {"cluster", "run", "exit_success"} \/ net
            \/ tasks # <<>> \/ events # <<>>) =>
        /\ CONFIG.init
        /\ cfgFile.kind = "valid"
        /\ CONFIG.prefix = cfgFile.prefix
    /\ mainPc = "exit_1" => (~net /\ tasks = <<>> /\ events = <<>> /\ ~CONFIG.init)
    /\ \A t \in DOMAIN tasks :
        (needs_config(tasks[t].event) /\ Handled(t)) =>
            (Count(t, "process_cmd") = 1
                <=> StartsWith(tasks[t].event.content, cfgFile.prefix))

\* Two handlers have read the prefix "!!" of the configuration file
C18_Witness ==
    \E t, u \in DOMAIN tasks :
        /\ t # u
        /\ CONFIG.init /\ Len(CONFIG.prefix) = 2
        /\ Says(t, PITTIE) /\ Handled(t)
        /\ Says(u, <<>>) /\ Handled(u)

====
